---- MODULE Spec2Model ----
(***************************************************************************)
(* State-machine model of the PRD builder backend (server/app/llm.py,      *)
(* server/app/main.py, server/app/schemas.py).                             *)
(*                                                                         *)
(* Representation.                                                         *)
(*   - A Python string is a sequence of characters, each a one-character   *)
(*     string.  The alphabet is printable ASCII, tab, line feed, form      *)
(*     feed and carriage return, and, written "U+XXXX" and counting as one *)
(*     character each: the other control characters (U+0000-U+001F and     *)
(*     U+007F-U+009F), the non-ASCII whitespace characters (U+00A0,        *)
(*     U+1680, U+2000-U+200A, U+2028, U+2029, U+202F, U+205F, U+3000) and  *)
(*     U+2013, the en dash of the source.  No other character is modelled. *)
(*   - A JSON / Python value is a record [t, s, l, k]: t is the type tag   *)
(*     ("str", "list", "num", "bool", "null", "obj"); s the characters of  *)
(*     a string, and for a number or a bool the text Python's repr gives   *)
(*     it ("0", "2.5", "1000.0", "True"); l the items of a list or the     *)
(*     values of a dict; k the keys of a dict, in insertion order, each a  *)
(*     string, k[i] being the key of l[i].                                 *)
(***************************************************************************)
EXTENDS Integers, Sequences, FiniteSets, TLC

VARIABLES
    env,        \* process environment: STUB_MODE and the LLM_* settings
    callerPrd,  \* the PRD the caller holds and sends with the next request
    turn,       \* number of requests the caller has started
    pc,         \* "idle" | "awaiting" (POST in flight) | "received" | "done"
    messages,   \* req.messages of the current request, while the handler reads it
    prior,      \* req.prd of the current request
    reply,      \* what the remote service answered (remote mode)
    result,     \* "none" | "response" | "error"
    errKind,    \* "" | "config" | "transport" | "format" | "parse"
    resp,       \* the ChatResponse returned (when result = "response")
    requests,   \* outbound HTTP requests issued during the current call
    stubCalls   \* invocations of _stub_response during the current call

vars == <<env, callerPrd, turn, pc, messages, prior, reply, result, errKind, resp,
          requests, stubCalls>>

(***************************************************************************)
(* Python string primitives                                                *)
(***************************************************************************)
SetMin(S) == CHOOSE x \in S : \A y \in S : x <= y
SetMax(S) == CHOOSE x \in S : \A y \in S : x >= y

\* the characters str.strip() removes: those with str.isspace()
Whitespace ==
    {" ",
     "\t", "\n", "U+000B", "\f", "\r", "U+001C", "U+001D", "U+001E",
     "U+001F", "U+0085", "U+00A0", "U+1680", "U+2000", "U+2001", "U+2002",
     "U+2003", "U+2004", "U+2005", "U+2006", "U+2007", "U+2008", "U+2009",
     "U+200A", "U+2028", "U+2029", "U+202F", "U+205F", "U+3000"}

RECURSIVE lstrip_chars(_, _)
lstrip_chars(s, cs) ==
    IF s /= <<>> /\ Head(s) \in cs THEN lstrip_chars(Tail(s), cs) ELSE s

RECURSIVE rstrip_chars(_, _)
rstrip_chars(s, cs) ==
    IF s /= <<>> /\ s[Len(s)] \in cs
    THEN rstrip_chars(SubSeq(s, 1, Len(s) - 1), cs)
    ELSE s

\* str.strip(chars)
strip_chars(s, cs) == rstrip_chars(lstrip_chars(s, cs), cs)

\* str.strip()
strip(s) == strip_chars(s, Whitespace)

UpperCase == <<"A","B","C","D","E","F","G","H","I","J","K","L","M",
               "N","O","P","Q","R","S","T","U","V","W","X","Y","Z">>
LowerCase == <<"a","b","c","d","e","f","g","h","i","j","k","l","m",
               "n","o","p","q","r","s","t","u","v","w","x","y","z">>

lower_char(c) ==
    IF \E i \in DOMAIN UpperCase : UpperCase[i] = c
    THEN LowerCase[CHOOSE i \in DOMAIN UpperCase : UpperCase[i] = c]
    ELSE c

\* str.lower()
lower(s) == [i \in DOMAIN s |-> lower_char(s[i])]

\* s[a:b] for 0 <= a, b <= len(s)
slice(s, a, b) == SubSeq(s, a + 1, b)

\* str.find(sub, start): lowest 0-based index >= start, or -1
find(s, sub, start) ==
    LET hits == {i \in start..(Len(s) - Len(sub)) :
                    SubSeq(s, i + 1, i + Len(sub)) = sub}
    IN  IF hits = {} THEN -1 ELSE SetMin(hits)

\* str.rfind(sub): highest 0-based index, or -1
rfind(s, sub) ==
    LET hits == {i \in 0..(Len(s) - Len(sub)) :
                    SubSeq(s, i + 1, i + Len(sub)) = sub}
    IN  IF hits = {} THEN -1 ELSE SetMax(hits)

startswith(s, p) == Len(s) >= Len(p) /\ SubSeq(s, 1, Len(p)) = p
endswith(s, p) == Len(s) >= Len(p) /\ SubSeq(s, Len(s) - Len(p) + 1, Len(s)) = p

\* str.split(sep) for a one-character separator
RECURSIVE split(_, _)
split(s, sep) ==
    LET j == find(s, <<sep>>, 0)
    IN  IF j = -1 THEN <<s>>
        ELSE <<slice(s, 0, j)>> \o split(slice(s, j + 1, Len(s)), sep)

\* sep.join(parts)
RECURSIVE join(_, _)
join(sep, parts) ==
    IF parts = <<>> THEN <<>>
    ELSE IF Len(parts) = 1 THEN parts[1]
    ELSE parts[1] \o sep \o join(sep, Tail(parts))

(***************************************************************************)
(* JSON / Python values                                                    *)
(***************************************************************************)
JStr(s)  == [t |-> "str",  s |-> s,    l |-> <<>>, k |-> <<>>]
JList(l) == [t |-> "list", s |-> <<>>, l |-> l,    k |-> <<>>]
JNum(s)  == [t |-> "num",  s |-> s,    l |-> <<>>, k |-> <<>>]
JBool(b) == [t |-> "bool", l |-> <<>>, k |-> <<>>,
             s |-> IF b THEN <<"T","r","u","e">> ELSE <<"F","a","l","s","e">>]
JNull    == [t |-> "null", s |-> <<>>, l |-> <<>>, k |-> <<>>]

\* the dict with the given <<key, value>> pairs, in that order
Dict(pairs) ==
    [t |-> "obj", s |-> <<>>,
     l |-> [i \in DOMAIN pairs |-> pairs[i][2]],
     k |-> [i \in DOMAIN pairs |-> pairs[i][1]]]

EmptyDict == Dict(<<>>)

\* key in d
has(d, key) == \E i \in DOMAIN d.k : d.k[i] = key

\* d[key]
at(d, key) == d.l[CHOOSE i \in DOMAIN d.k : d.k[i] = key]

\* d.get(key, default)
get(d, key, default) == IF has(d, key) THEN at(d, key) ELSE default

\* d[key] = value: in place for a key d has, at the end for a new one
put(d, key, value) ==
    IF has(d, key)
    THEN [d EXCEPT !.l[CHOOSE i \in DOMAIN d.k : d.k[i] = key] = value]
    ELSE [d EXCEPT !.k = Append(@, key), !.l = Append(@, value)]

\* d.setdefault(key, default)
setdefault(d, key, default) == IF has(d, key) THEN d ELSE put(d, key, default)

\* Python truthiness: bool(v); a number is falsy when it is zero
truthy(v) ==
    CASE v.t = "str"  -> v.s /= <<>>
      [] v.t = "list" -> v.l /= <<>>
      [] v.t = "num"  -> v.s \notin {<<"0">>, <<"0",".","0">>, <<"-","0",".","0">>}
      [] v.t = "bool" -> v.s = <<"T","r","u","e">>
      [] v.t = "null" -> FALSE
      [] v.t = "obj"  -> v.k /= <<>>

\* the characters of the alphabet repr() writes as an escape (the control
\* characters and the non-ASCII whitespace), with the escape
Escapes ==
    <<<<"U+0000", <<"\\","x","0","0">>>>,
      <<"U+0001", <<"\\","x","0","1">>>>,
      <<"U+0002", <<"\\","x","0","2">>>>,
      <<"U+0003", <<"\\","x","0","3">>>>,
      <<"U+0004", <<"\\","x","0","4">>>>,
      <<"U+0005", <<"\\","x","0","5">>>>,
      <<"U+0006", <<"\\","x","0","6">>>>,
      <<"U+0007", <<"\\","x","0","7">>>>,
      <<"U+0008", <<"\\","x","0","8">>>>,
      <<"\t", <<"\\","t">>>>,
      <<"\n", <<"\\","n">>>>,
      <<"U+000B", <<"\\","x","0","b">>>>,
      <<"\f", <<"\\","x","0","c">>>>,
      <<"\r", <<"\\","r">>>>,
      <<"U+000E", <<"\\","x","0","e">>>>,
      <<"U+000F", <<"\\","x","0","f">>>>,
      <<"U+0010", <<"\\","x","1","0">>>>,
      <<"U+0011", <<"\\","x","1","1">>>>,
      <<"U+0012", <<"\\","x","1","2">>>>,
      <<"U+0013", <<"\\","x","1","3">>>>,
      <<"U+0014", <<"\\","x","1","4">>>>,
      <<"U+0015", <<"\\","x","1","5">>>>,
      <<"U+0016", <<"\\","x","1","6">>>>,
      <<"U+0017", <<"\\","x","1","7">>>>,
      <<"U+0018", <<"\\","x","1","8">>>>,
      <<"U+0019", <<"\\","x","1","9">>>>,
      <<"U+001A", <<"\\","x","1","a">>>>,
      <<"U+001B", <<"\\","x","1","b">>>>,
      <<"U+001C", <<"\\","x","1","c">>>>,
      <<"U+001D", <<"\\","x","1","d">>>>,
      <<"U+001E", <<"\\","x","1","e">>>>,
      <<"U+001F", <<"\\","x","1","f">>>>,
      <<"U+007F", <<"\\","x","7","f">>>>,
      <<"U+0080", <<"\\","x","8","0">>>>,
      <<"U+0081", <<"\\","x","8","1">>>>,
      <<"U+0082", <<"\\","x","8","2">>>>,
      <<"U+0083", <<"\\","x","8","3">>>>,
      <<"U+0084", <<"\\","x","8","4">>>>,
      <<"U+0085", <<"\\","x","8","5">>>>,
      <<"U+0086", <<"\\","x","8","6">>>>,
      <<"U+0087", <<"\\","x","8","7">>>>,
      <<"U+0088", <<"\\","x","8","8">>>>,
      <<"U+0089", <<"\\","x","8","9">>>>,
      <<"U+008A", <<"\\","x","8","a">>>>,
      <<"U+008B", <<"\\","x","8","b">>>>,
      <<"U+008C", <<"\\","x","8","c">>>>,
      <<"U+008D", <<"\\","x","8","d">>>>,
      <<"U+008E", <<"\\","x","8","e">>>>,
      <<"U+008F", <<"\\","x","8","f">>>>,
      <<"U+0090", <<"\\","x","9","0">>>>,
      <<"U+0091", <<"\\","x","9","1">>>>,
      <<"U+0092", <<"\\","x","9","2">>>>,
      <<"U+0093", <<"\\","x","9","3">>>>,
      <<"U+0094", <<"\\","x","9","4">>>>,
      <<"U+0095", <<"\\","x","9","5">>>>,
      <<"U+0096", <<"\\","x","9","6">>>>,
      <<"U+0097", <<"\\","x","9","7">>>>,
      <<"U+0098", <<"\\","x","9","8">>>>,
      <<"U+0099", <<"\\","x","9","9">>>>,
      <<"U+009A", <<"\\","x","9","a">>>>,
      <<"U+009B", <<"\\","x","9","b">>>>,
      <<"U+009C", <<"\\","x","9","c">>>>,
      <<"U+009D", <<"\\","x","9","d">>>>,
      <<"U+009E", <<"\\","x","9","e">>>>,
      <<"U+009F", <<"\\","x","9","f">>>>,
      <<"U+00A0", <<"\\","x","a","0">>>>,
      <<"U+1680", <<"\\","u","1","6","8","0">>>>,
      <<"U+2000", <<"\\","u","2","0","0","0">>>>,
      <<"U+2001", <<"\\","u","2","0","0","1">>>>,
      <<"U+2002", <<"\\","u","2","0","0","2">>>>,
      <<"U+2003", <<"\\","u","2","0","0","3">>>>,
      <<"U+2004", <<"\\","u","2","0","0","4">>>>,
      <<"U+2005", <<"\\","u","2","0","0","5">>>>,
      <<"U+2006", <<"\\","u","2","0","0","6">>>>,
      <<"U+2007", <<"\\","u","2","0","0","7">>>>,
      <<"U+2008", <<"\\","u","2","0","0","8">>>>,
      <<"U+2009", <<"\\","u","2","0","0","9">>>>,
      <<"U+200A", <<"\\","u","2","0","0","a">>>>,
      <<"U+2028", <<"\\","u","2","0","2","8">>>>,
      <<"U+2029", <<"\\","u","2","0","2","9">>>>,
      <<"U+202F", <<"\\","u","2","0","2","f">>>>,
      <<"U+205F", <<"\\","u","2","0","5","f">>>>,
      <<"U+3000", <<"\\","u","3","0","0","0">>>>>>

\* the quote repr() puts around a str: " when the str holds ' and no "
quote_of(s) ==
    IF (\E i \in DOMAIN s : s[i] = "'") /\ ~(\E i \in DOMAIN s : s[i] = "\"")
    THEN "\"" ELSE "'"

\* repr() of one character inside a str literal quoted with q
repr_char(c, q) ==
    IF c = "\\" THEN <<"\\", "\\">>
    ELSE IF c = q THEN <<"\\", c>>
    ELSE IF \E i \in DOMAIN Escapes : Escapes[i][1] = c
         THEN Escapes[CHOOSE i \in DOMAIN Escapes : Escapes[i][1] = c][2]
         ELSE <<c>>

RECURSIVE repr_chars(_, _)
repr_chars(s, q) ==
    IF s = <<>> THEN <<>> ELSE repr_char(Head(s), q) \o repr_chars(Tail(s), q)

\* repr(s) of a str
repr_str(s) == <<quote_of(s)>> \o repr_chars(s, quote_of(s)) \o <<quote_of(s)>>

\* repr(v)
RECURSIVE py_repr(_)
RECURSIVE py_repr_items(_)
RECURSIVE py_repr_pairs(_, _)
py_repr(v) ==
    CASE v.t = "str"  -> repr_str(v.s)
      [] v.t = "num"  -> v.s
      [] v.t = "bool" -> v.s
      [] v.t = "null" -> <<"N", "o", "n", "e">>
      [] v.t = "list" -> <<"[">> \o py_repr_items(v.l) \o <<"]">>
      [] v.t = "obj"  -> <<"{">> \o py_repr_pairs(v.k, v.l) \o <<"}">>
py_repr_items(l) ==
    IF l = <<>> THEN <<>>
    ELSE IF Len(l) = 1 THEN py_repr(l[1])
    ELSE py_repr(l[1]) \o <<",", " ">> \o py_repr_items(Tail(l))
py_repr_pairs(ks, l) ==
    IF ks = <<>> THEN <<>>
    ELSE repr_str(ks[1]) \o <<":", " ">> \o py_repr(l[1])
         \o (IF Len(ks) = 1 THEN <<>>
             ELSE <<",", " ">> \o py_repr_pairs(Tail(ks), Tail(l)))

\* str(v): the characters of a str, repr(v) of anything else
py_str(v) == IF v.t = "str" THEN v.s ELSE py_repr(v)

(***************************************************************************)
(* llm.py: the merge engine and the remote path of call_llm                *)
(***************************************************************************)
\* the keys the source names, as Python strings
KProblem ==
    <<"p","r","o","b","l","e","m">>
KUsers ==
    <<"u","s","e","r","s">>
KGoals ==
    <<"g","o","a","l","s">>
KMetrics ==
    <<"m","e","t","r","i","c","s">>
KRequirements ==
    <<"r","e","q","u","i","r","e","m","e","n","t","s">>
KOpenQuestions ==
    <<"o","p","e","n","_","q","u","e","s","t","i","o","n","s">>
KAssistantText ==
    <<"a","s","s","i","s","t","a","n","t","_","t","e","x","t">>
KQuestions ==
    <<"q","u","e","s","t","i","o","n","s">>
KPrd ==
    <<"p","r","d">>

\* the six PRD keys, in the order _ensure_prd_shape installs them
PrdKeys == <<KProblem, KUsers, KGoals, KMetrics, KRequirements, KOpenQuestions>>

\* the defaults _ensure_prd_shape and _stub_response use
PrdDefault(key) == IF key = KProblem THEN JStr(<<>>) ELSE JList(<<>>)

\* _ensure_prd_shape(prd): a non-dict becomes {}; setdefault adds the missing
\* keys, in order, and leaves every present value, of whatever type, as it is
_ensure_prd_shape(v) ==
    LET d0 == IF v.t = "obj" THEN v ELSE EmptyDict
        d1 == setdefault(d0, KProblem, JStr(<<>>))
        d2 == setdefault(d1, KUsers, JList(<<>>))
        d3 == setdefault(d2, KGoals, JList(<<>>))
        d4 == setdefault(d3, KMetrics, JList(<<>>))
        d5 == setdefault(d4, KRequirements, JList(<<>>))
    IN  setdefault(d5, KOpenQuestions, JList(<<>>))

\* mutant of replaces: any list, and any string, replaces the prior value
replaces_any(key, v) ==
    IF key = KProblem THEN v.t = "str" ELSE v.t = "list"

\* mutant of replaces: the candidate problem is tested without trimming
replaces_untrimmed(key, v) ==
    IF key = KProblem
    THEN v.t = "str" /\ v.s /= <<>>
    ELSE v.t = "list" /\ Len(v.l) > 0

\* the test of the merge loop (llm.py 273-278): does candidate value v replace
\* the prior value of key
replaces(key, v) ==
    IF key = KProblem
    THEN v.t = "str" /\ strip(v.s) /= <<>>
    ELSE v.t = "list" /\ Len(v.l) > 0

\* for k, v in new_prd.items(): ... merged[k] = v
RECURSIVE merge_items(_, _, _)
merge_items(merged, ks, vs) ==
    IF ks = <<>> THEN merged
    ELSE merge_items(IF replaces(ks[1], vs[1]) THEN put(merged, ks[1], vs[1]) ELSE merged,
                     Tail(ks), Tail(vs))

\* merged = dict(old_prd), then the loop over new_prd.items()
merge(old_prd, new_prd) == merge_items(old_prd, new_prd.k, new_prd.l)

\* [str(x).strip() for x in questions_raw if str(x).strip()]
RECURSIVE stripped_nonblank(_)
stripped_nonblank(xs) ==
    IF xs = <<>> THEN <<>>
    ELSE (IF strip(py_str(Head(xs))) /= <<>> THEN <<strip(py_str(Head(xs)))>> ELSE <<>>)
         \o stripped_nonblank(Tail(xs))

\* xs[:n]
take(xs, n) == SubSeq(xs, 1, IF Len(xs) < n THEN Len(xs) ELSE n)

\* mutant of sanitize_questions: the [:3] is dropped
sanitize_questions_uncapped(obj) ==
    LET questions_raw == get(obj, KQuestions, JList(<<>>))
        raw == IF questions_raw.t = "list" THEN questions_raw.l ELSE <<>>
    IN  stripped_nonblank(raw)

\* questions of the remote path (llm.py 281-287)
sanitize_questions(obj) ==
    LET questions_raw == get(obj, KQuestions, JList(<<>>))
        raw == IF questions_raw.t = "list" THEN questions_raw.l ELSE <<>>
    IN  take(stripped_nonblank(raw), 3)

\* _has_items(xs)
_has_items(xs) ==
    /\ xs.t = "list"
    /\ \E i \in DOMAIN xs.l : xs.l[i].t = "str" /\ strip(xs.l[i].s) /= <<>>

\* is_complete (llm.py 299-303); merged.get(k) is None for a missing key
is_complete(merged) ==
    /\ _has_items(get(merged, KGoals, JNull))
    /\ _has_items(get(merged, KMetrics, JNull))
    /\ _has_items(get(merged, KRequirements, JNull))

\* a list of str as a value
StrList(qs) == JList([i \in DOMAIN qs |-> JStr(qs[i])])

\* the completion policy (llm.py 305-314) applied to the merged PRD
finish(merged, assistant_text, questions) ==
    IF is_complete(merged)
    THEN [assistant_text |-> <<>>,
          questions      |-> <<>>,
          prd            |-> put(merged, KOpenQuestions, JList(<<>>))]
    ELSE [assistant_text |-> assistant_text,
          questions      |-> questions,
          prd            |-> put(merged, KOpenQuestions, StrList(questions))]

\* call_llm from the parsed object on (llm.py 268-314); prd is req.prd
merge_response(obj, prd) ==
    LET new_prd == _ensure_prd_shape(get(obj, KPrd, EmptyDict))
        old_prd == _ensure_prd_shape(IF truthy(prd) THEN prd ELSE EmptyDict)
        merged  == merge(old_prd, new_prd)
        assistant_text == strip(py_str(get(obj, KAssistantText, JStr(<<>>))))
    IN  finish(merged, assistant_text, sanitize_questions(obj))

(***************************************************************************)
(* llm.py: _extract_json_object.  In a content text the element Members    *)
(* stands for the serialised members ("key": value, ...) of an object the  *)
(* service produced, so a JSON object text is "{", optional whitespace,    *)
(* Members or nothing, optional whitespace, "}".  json.loads returns the   *)
(* object for such a text, {} when there are no members, and raises on     *)
(* any other text.                                                         *)
(***************************************************************************)
Members == "<members>"

\* the whitespace of the JSON grammar
JsonWhitespace == {" ", "\t", "\n", "\r"}

\* a value that was not produced: the callee raised
Raised == [ok |-> FALSE, obj |-> EmptyDict]

\* json.loads(s), members being the object Members stands for
json_loads(s, members) ==
    LET doc   == strip_chars(s, JsonWhitespace)
        inner == strip_chars(slice(doc, 1, Len(doc) - 1), JsonWhitespace)
    IN  IF Len(doc) >= 2 /\ doc[1] = "{" /\ doc[Len(doc)] = "}"
        THEN IF inner = <<>> THEN [ok |-> TRUE, obj |-> EmptyDict]
             ELSE IF inner = <<Members>> THEN [ok |-> TRUE, obj |-> members]
             ELSE Raised
        ELSE Raised

\* _extract_json_object(text): [ok |-> TRUE, obj |-> the dict] when it
\* returns, Raised when it raises
_extract_json_object(text, members) ==
    LET s == strip(text)
    IN  IF startswith(s, <<"{">>) /\ endswith(s, <<"}">>)
        THEN json_loads(s, members)
        ELSE LET start == find(s, <<"{">>, 0)
                 end   == rfind(s, <<"}">>)
             IN  IF start = -1 \/ end = -1 \/ end <= start
                 THEN Raised
                 ELSE json_loads(slice(s, start, end + 1), members)

(***************************************************************************)
(* llm.py: _stub_response, the rule-based extractor                        *)
(***************************************************************************)
\* 'Who is the target user for this product?'
QuestionUsers ==
    <<"W","h","o"," ","i","s"," ","t","h","e"," ","t","a","r","g","e","t",
      " ","u","s","e","r"," ","f","o","r"," ","t","h","i","s"," ","p","r",
      "o","d","u","c","t","?">>

\* 'What is the primary goal or outcome you want?'
QuestionGoals ==
    <<"W","h","a","t"," ","i","s"," ","t","h","e"," ","p","r","i","m","a",
      "r","y"," ","g","o","a","l"," ","o","r"," ","o","u","t","c","o","m",
      "e"," ","y","o","u"," ","w","a","n","t","?">>

\* 'How will you measure success (1-3 metrics)?'
QuestionMetrics ==
    <<"H","o","w"," ","w","i","l","l"," ","y","o","u"," ","m","e","a","s",
      "u","r","e"," ","s","u","c","c","e","s","s"," ","(","1","U+2013","3",
      " ","m","e","t","r","i","c","s",")","?">>

\* 'Got it. I can start drafting a PRD. Answer these questions so I can refine it:\n'
Preamble ==
    <<"G","o","t"," ","i","t","."," ","I"," ","c","a","n"," ","s","t","a",
      "r","t"," ","d","r","a","f","t","i","n","g"," ","a"," ","P","R","D",
      "."," ","A","n","s","w","e","r"," ","t","h","e","s","e"," ","q","u",
      "e","s","t","i","o","n","s"," ","s","o"," ","I"," ","c","a","n"," ",
      "r","e","f","i","n","e"," ","i","t",":","\n">>

\* 'Thanks. I updated the PRD based on your latest input.'
Acknowledgment ==
    <<"T","h","a","n","k","s","."," ","I"," ","u","p","d","a","t","e","d",
      " ","t","h","e"," ","P","R","D"," ","b","a","s","e","d"," ","o","n",
      " ","y","o","u","r"," ","l","a","t","e","s","t"," ","i","n","p","u",
      "t",".">>

\* 'goal:'
LabelGoal ==
    <<"g","o","a","l",":">>

\* 'success metrics:'
LabelSuccessMetrics ==
    <<"s","u","c","c","e","s","s"," ","m","e","t","r","i","c","s",":">>

\* 'metrics:'
LabelMetrics ==
    <<"m","e","t","r","i","c","s",":">>

\* 'target users:'
LabelTargetUsers ==
    <<"t","a","r","g","e","t"," ","u","s","e","r","s",":">>

\* 'user'
RoleUser ==
    <<"u","s","e","r">>

\* the labels _grab stops at, in the order of the source
StopLabels == <<LabelGoal, LabelSuccessMetrics, LabelMetrics, LabelTargetUsers>>

\* the content of the last message with role "user", "" when there is none
RECURSIVE last_user_of(_)
last_user_of(msgs) ==
    IF msgs = <<>> THEN <<>>
    ELSE IF lower(msgs[Len(msgs)].role) = RoleUser
         THEN msgs[Len(msgs)].content
         ELSE last_user_of(SubSeq(msgs, 1, Len(msgs) - 1))

\* _grab(after) over text = last_user.strip()
_grab(text, after) ==
    LET idx == find(lower(text), lower(after), 0)
    IN  IF idx = -1 THEN <<>>
        ELSE LET start == idx + Len(after)
                 stops == {j \in {find(lower(text), StopLabels[i], start) :
                                      i \in DOMAIN StopLabels} : j /= -1}
                 end   == IF stops /= {} THEN SetMin(stops) ELSE Len(text)
             IN  strip_chars(slice(text, start, end), {" ", ".", ";", "\n", "\t"})

\* [p.strip() for p in metrics_str.split(",") if p.strip()]
RECURSIVE stripped_parts(_)
stripped_parts(ps) ==
    IF ps = <<>> THEN <<>>
    ELSE (IF strip(Head(ps)) /= <<>> THEN <<strip(Head(ps))>> ELSE <<>>)
         \o stripped_parts(Tail(ps))

\* mutant of stub_questions: only the first empty field is asked about
stub_questions_first_only(base_prd) ==
    IF ~truthy(at(base_prd, KUsers)) THEN <<QuestionUsers>>
    ELSE IF ~truthy(at(base_prd, KGoals)) THEN <<QuestionGoals>>
    ELSE IF ~truthy(at(base_prd, KMetrics)) THEN <<QuestionMetrics>>
    ELSE <<>>

\* the questions of the stub (llm.py 151-157), from the prior values
stub_questions(base_prd) ==
    (IF ~truthy(at(base_prd, KUsers)) THEN <<QuestionUsers>> ELSE <<>>)
    \o (IF ~truthy(at(base_prd, KGoals)) THEN <<QuestionGoals>> ELSE <<>>)
    \o (IF ~truthy(at(base_prd, KMetrics)) THEN <<QuestionMetrics>> ELSE <<>>)

\* "\n".join([f"- {q}" for q in questions])
bulleted(questions) == join(<<"\n">>, [i \in DOMAIN questions |-> <<"-", " ">> \o questions[i]])

\* assistant_text of the stub (llm.py 159-165)
stub_assistant_text(questions) ==
    IF questions /= <<>> THEN Preamble \o bulleted(questions) ELSE Acknowledgment

\* mutant of seed: requirements start from a placeholder item
seed_placeholder(existing, key) ==
    get(existing, key, IF key = KRequirements THEN StrList(<<<<"T", "B", "D">>>>)
                       ELSE PrdDefault(key))

\* existing.get(key, default) of base_prd (llm.py 142-149)
seed(existing, key) == get(existing, key, PrdDefault(key))

\* _stub_response(messages, prd)
_stub_response(msgs, prd) ==
    LET last_user == last_user_of(msgs)
        existing  == IF truthy(prd) THEN prd ELSE EmptyDict
        base_prd  == Dict([i \in DOMAIN PrdKeys |-> <<PrdKeys[i], seed(existing, PrdKeys[i])>>])
        questions == stub_questions(base_prd)
        b1        == IF ~truthy(at(base_prd, KProblem)) /\ last_user /= <<>>
                     THEN put(base_prd, KProblem, JStr(strip(last_user)))
                     ELSE base_prd
        text      == strip(last_user)
        users_str == _grab(text, LabelTargetUsers)
        goal_str  == _grab(text, LabelGoal)
        m1        == _grab(text, LabelSuccessMetrics)
        metrics_str == IF m1 = <<>> THEN _grab(text, LabelMetrics) ELSE m1
        b2        == IF users_str /= <<>> /\ ~truthy(at(b1, KUsers))
                     THEN put(b1, KUsers, StrList(<<users_str>>)) ELSE b1
        b3        == IF goal_str /= <<>> /\ ~truthy(at(b2, KGoals))
                     THEN put(b2, KGoals, StrList(<<goal_str>>)) ELSE b2
        parts     == stripped_parts(split(metrics_str, ","))
        b4        == IF metrics_str /= <<>> /\ ~truthy(at(b3, KMetrics))
                     THEN put(b3, KMetrics,
                              StrList(IF parts /= <<>> THEN parts ELSE <<metrics_str>>))
                     ELSE b3
    IN  [assistant_text |-> stub_assistant_text(questions),
         questions      |-> take(questions, 3),
         prd            |-> b4]

(***************************************************************************)
(* llm.py: the environment call_llm reads (os.getenv at call time)         *)
(***************************************************************************)
Unset == [set |-> FALSE, v |-> <<>>]
SetTo(s) == [set |-> TRUE, v |-> s]

\* _env_bool(name, default)
_env_bool(e, name, default) ==
    IF ~e[name].set THEN default
    ELSE lower(strip(e[name].v)) \in
            {<<"1">>, <<"t","r","u","e">>, <<"y","e","s">>, <<"y">>, <<"o","n">>}

\* "not os.getenv(name)": unset or the empty string
missing(e, name) == ~e[name].set \/ e[name].v = <<>>

\* mutant of config_missing: LLM_MODEL is not checked
config_missing_no_model(e) ==
    missing(e, "LLM_API_KEY") \/ missing(e, "LLM_BASE_URL")

\* the guard of llm.py 232
config_missing(e) ==
    missing(e, "LLM_API_KEY") \/ missing(e, "LLM_BASE_URL") \/ missing(e, "LLM_MODEL")

Digits == {"0", "1", "2", "3", "4", "5", "6", "7", "8", "9"}

\* digits, with single underscores between digits allowed
digitpart(p) ==
    /\ p /= <<>>
    /\ \A i \in DOMAIN p : p[i] \in Digits \cup {"_"}
    /\ p[1] \in Digits /\ p[Len(p)] \in Digits
    /\ \A i \in 1..(Len(p) - 1) : ~(p[i] = "_" /\ p[i + 1] = "_")

\* t without its leading sign, if it has one
unsigned(t) == IF t /= <<>> /\ t[1] \in {"+", "-"} THEN Tail(t) ELSE t

\* digitpart, digitpart "." [digitpart], or "." digitpart
mantissa_ok(m) ==
    LET dot == find(m, <<".">>, 0)
        ip  == slice(m, 0, dot)
        fp  == slice(m, dot + 1, Len(m))
    IN  IF dot = -1 THEN digitpart(m)
        ELSE /\ ip /= <<>> \/ fp /= <<>>
             /\ ip = <<>> \/ digitpart(ip)
             /\ fp = <<>> \/ digitpart(fp)

\* the whitespace float() trims: that of str.strip() but for the four
\* separators U+001C-U+001F
FloatWhitespace == Whitespace \ {"U+001C", "U+001D", "U+001E", "U+001F"}

\* float(s) returns: s, trimmed, is a signed decimal numeral with an
\* optional exponent, or a signed "inf", "infinity" or "nan" in any case
float_ok(s) ==
    LET u == lower(unsigned(strip_chars(s, FloatWhitespace)))
        e == find(u, <<"e">>, 0)
    IN  \/ u \in {<<"i","n","f">>, <<"i","n","f","i","n","i","t","y">>, <<"n","a","n">>}
        \/ /\ e = -1
           /\ mantissa_ok(u)
        \/ /\ e /= -1
           /\ mantissa_ok(slice(u, 0, e))
           /\ digitpart(unsigned(slice(u, e + 1, Len(u))))

\* float(os.getenv("LLM_TIMEOUT_S", "30")) returns
timeout_ok(e) ==
    float_ok(IF e["LLM_TIMEOUT_S"].set THEN e["LLM_TIMEOUT_S"].v ELSE <<"3", "0">>)

(***************************************************************************)
(* Inputs: environments, caller PRDs, conversations, service replies       *)
(***************************************************************************)
MaxTurns == 2
MaxQuestions == 4

A == <<"a">>
B == <<"b">>
Q == <<" ", "q", "?", " ">>
R == <<"r", "?">>
Blank == <<" ">>
FormFeedBlank == <<"\f", " ">>
Old == <<"o", "l", "d", "?">>
KNotes == <<"n", "o", "t", "e", "s">>

Env(stub, key, url, model, timeout) ==
    [STUB_MODE |-> stub, LLM_API_KEY |-> key, LLM_BASE_URL |-> url,
     LLM_MODEL |-> model, LLM_TIMEOUT_S |-> timeout]

Off == SetTo(<<"f","a","l","s","e">>)
X == SetTo(<<"x">>)

Envs ==
    { Env(Unset, Unset, Unset, Unset, Unset),
      Env(SetTo(<<" ","O","N","\f">>), X, X, X, Unset),
      Env(SetTo(<<"0">>), X, X, X, SetTo(<<" ","1","_","0",".","5","E","+","1">>)),
      Env(Off, X, X, X, SetTo(<<"s","o","o","n">>)),
      Env(Off, Unset, X, X, Unset),
      Env(Off, X, Unset, X, Unset),
      Env(Off, X, X, Unset, Unset),
      Env(Off, SetTo(<<>>), X, X, Unset),
      Env(Off, X, SetTo(<<>>), X, Unset),
      Env(Off, X, X, SetTo(<<>>), Unset) }

L1(s) == JList(<<JStr(s)>>)

\* {"goals": ["a"], "metrics": ["a"], "requirements": ["a"]}
CompletePrd ==
    Dict(<< <<KGoals, L1(A)>>, <<KMetrics, L1(A)>>, <<KRequirements, L1(A)>> >>)

\* a PRD with the six fields filled
FullPrd ==
    Dict(<< <<KProblem, JStr(<<"p">>)>>, <<KUsers, L1(A)>>, <<KGoals, L1(A)>>,
            <<KMetrics, L1(A)>>, <<KRequirements, L1(A)>>, <<KOpenQuestions, L1(Old)>> >>)

\* req.prd: Optional[Dict[str, Any]]
CallerPrds ==
    { JNull,
      EmptyDict,
      CompletePrd,
      FullPrd,
      put(FullPrd, KRequirements, JList(<<>>)),
      put(FullPrd, KUsers, JList(<<>>)),
      Dict(<< <<KGoals, L1(A)>> >>),
      Dict(<< <<KOpenQuestions, L1(Old)>> >>),
      put(CompletePrd, KGoals, L1(Blank)),
      Dict(<< <<KUsers, JStr(A)>>, <<KProblem, JNum(<<"5">>)>> >>),
      Dict(<< <<KRequirements, JNull>>, <<KNotes, L1(A)>>,
              <<KMetrics, JNum(<<"0", ".", "0">>)>>, <<KGoals, JBool(FALSE)>> >>) }

\* 'I want an app for freelancers. Goal: save time. Success metrics: hours saved, retention'
TextScenarioA ==
    <<"I"," ","w","a","n","t"," ","a","n"," ","a","p","p"," ","f","o","r",
      " ","f","r","e","e","l","a","n","c","e","r","s","."," ","G","o","a",
      "l",":"," ","s","a","v","e"," ","t","i","m","e","."," ","S","u","c",
      "c","e","s","s"," ","m","e","t","r","i","c","s",":"," ","h","o","u",
      "r","s"," ","s","a","v","e","d",","," ","r","e","t","e","n","t","i",
      "o","n">>

\* 'nice weather'
TextChat ==
    <<"n","i","c","e"," ","w","e","a","t","h","e","r">>

\* 'Target users: devs; goal: ship.'
TextUsers ==
    <<"T","a","r","g","e","t"," ","u","s","e","r","s",":"," ","d","e","v",
      "s",";"," ","g","o","a","l",":"," ","s","h","i","p",".">>

\* 'metrics: , ,'
TextMetricsOnly ==
    <<"m","e","t","r","i","c","s",":"," ",","," ",",">>

\* ' '
TextBlank ==
    <<" ">>

\* 'ok'
TextAssistant ==
    <<"o","k">>

Message(role, content) == [role |-> role, content |-> content]
User(content) == Message(RoleUser, content)
Assistant(content) == Message(<<"a","s","s","i","s","t","a","n","t">>, content)

\* req.messages: List[Message], content of length >= 1
Conversations ==
    { <<User(TextScenarioA)>>,
      <<User(TextChat)>>,
      <<User(TextUsers), Assistant(TextAssistant)>>,
      <<User(TextChat), Assistant(TextAssistant), User(TextMetricsOnly)>>,
      <<User(TextBlank)>>,
      <<Assistant(TextAssistant)>> }

\* the lists of at most n items over a set of items
RECURSIVE ListsUpTo(_, _)
ListsUpTo(items, n) ==
    IF n = 0 THEN {<<>>}
    ELSE LET shorter == ListsUpTo(items, n - 1)
         IN  shorter \cup {Append(l, x) : l \in shorter, x \in items}

ListKeys == {KUsers, KGoals, KMetrics, KRequirements, KOpenQuestions}

\* the "prd" member of the object the service returns
CandidatePrds ==
    { EmptyDict, JStr(<<"x">>), JNull,
      Dict(<< <<KOpenQuestions, L1(Old)>>, <<KRequirements, L1(B)>>, <<KMetrics, L1(B)>>,
              <<KGoals, L1(B)>>, <<KUsers, L1(B)>>, <<KProblem, JStr(<<"p","2">>)>> >>),
      Dict(<< <<KNotes, L1(B)>> >>) }
    \cup {Dict(<< <<key, v>> >>) : key \in ListKeys,
            v \in {JList(<<>>), L1(Blank), L1(B), JList(<<JNum(<<"1">>)>>), JStr(B)}}
    \cup {Dict(<< <<KProblem, v>> >>) :
            v \in {JStr(<<>>), JStr(FormFeedBlank), JStr(<<" ","p","2">>), JNum(<<"7">>), L1(B)}}

\* the "questions" member
CandidateQuestions ==
    {JList(l) : l \in ListsUpTo({JStr(Blank), JStr(Q)}, MaxQuestions)}
    \cup { JList(<<JStr(R), JStr(Q)>>),
           JList(<<JNum(<<"1">>), JNull, JBool(TRUE), L1(<<"i","t","'","s">>)>>),
           JStr(Q) }

\* {"assistant_text": a, "questions": qs, "prd": p}
Answer(a, qs, p) ==
    Dict(<< <<KAssistantText, a>>, <<KQuestions, qs>>, <<KPrd, p>> >>)

\* the objects the service serialises: PRD-focused and question-focused ones
Candidates ==
    {Answer(JStr(Q), JList(<<JStr(Q)>>), p) : p \in CandidatePrds}
    \cup {Answer(JStr(Q), qs, EmptyDict) : qs \in CandidateQuestions}
    \cup {Answer(JStr(Q), JList(<<>>), Dict(<< <<KRequirements, L1(B)>> >>))}
    \cup {Dict(<< <<KPrd, EmptyDict>> >>),
          Dict(<< <<KQuestions, JList(<<JStr(Q)>>)>> >>),
          Dict(<< <<KAssistantText, JNum(<<"7">>)>>, <<KQuestions, JList(<<JStr(R)>>)>> >>),
          Dict(<< <<KAssistantText, JNull>>, <<KPrd, Dict(<< <<KGoals, L1(B)>> >>)>> >>)}

\* Scenario D of the design: {"assistant_text":"ok","questions":[],"prd":{}}
ScenarioDObject == Answer(JStr(<<"o","k">>), JList(<<>>), EmptyDict)

\* choices[0].message.content texts
BareContent == <<"{", Members, "}">>
SpacedContent == <<"\f", "{", "\n", " ", Members, "\t", "}", "\n">>
ProseContent ==
    <<"S","u","r","e","!"," ","{", Members, "}"," ","T","h","a","n","k","s","!">>
EmptyObjectContents ==
    { <<"{", "}">>, <<"S","u","r","e","!"," ","{"," ","}"," ","o","k">> }
BadContents ==
    { <<"n","o">>, <<"}"," ","{">>, <<"{", Members>>,
      <<"{", Members, "}", " ", "{", Members, "}">>, <<"{", "x", "}">>,
      <<"{", "\f", "}">> }

NoReply == [kind |-> "none", content |-> <<>>, obj |-> EmptyDict]

\* what comes back for the POST: the connection or the timeout fails, a
\* non-success status, a body that is no JSON, an envelope without
\* choices[0].message.content, a content that is no string, or a content
\* text; obj is the object Members stands for in the text
Replies ==
    {[kind |-> kind, content |-> <<>>, obj |-> EmptyDict] :
        kind \in {"connect", "status", "body", "envelope", "nonstr"}}
    \cup {[kind |-> "content", content |-> BareContent, obj |-> o] : o \in Candidates}
    \cup {[kind |-> "content", content |-> c, obj |-> ScenarioDObject] :
            c \in {ProseContent, SpacedContent}}
    \cup {[kind |-> "content", content |-> c, obj |-> EmptyDict] :
            c \in EmptyObjectContents \cup BadContents}

\* resp while no ChatResponse has been returned.  A ChatResponse is built
\* from a str, a list of at most 3 str and a dict on both paths, so the
\* validation of schemas.py 21-24 never rejects one.
NoResp == [assistant_text |-> <<>>, questions |-> <<>>, prd |-> EmptyDict]

(***************************************************************************)
(* The state machine: main.py chat -> llm.py call_llm                      *)
(***************************************************************************)
Init ==
    /\ env \in Envs
    /\ callerPrd \in CallerPrds
    /\ turn = 0
    /\ pc = "idle"
    /\ messages = <<>>
    /\ prior = JNull
    /\ reply = NoReply
    /\ result = "none"
    /\ errKind = ""
    /\ resp = NoResp
    /\ requests = 0
    /\ stubCalls = 0

stub_mode(e) == _env_bool(e, "STUB_MODE", TRUE)

\* POST /api/chat: the caller sends the conversation and the PRD it holds
Request ==
    /\ pc = "idle"
    /\ turn < MaxTurns
    /\ turn' = turn + 1
    /\ prior' = callerPrd
    /\ reply' = NoReply
    /\ UNCHANGED <<env, callerPrd>>

\* call_llm with STUB_MODE true: llm.py 225-226
StubCall(msgs) ==
    /\ Request
    /\ stub_mode(env)
    /\ messages' = msgs
    /\ resp' = _stub_response(msgs, callerPrd)
    /\ result' = "response"
    /\ errKind' = ""
    /\ requests' = 0
    /\ stubCalls' = 1
    /\ pc' = "done"

\* call_llm raises before the client is made: llm.py 228-235
RemoteCallRaises(msgs) ==
    /\ Request
    /\ ~stub_mode(env)
    /\ config_missing(env) \/ ~timeout_ok(env)
    /\ messages' = msgs
    /\ resp' = NoResp
    /\ result' = "error"
    /\ errKind' = "config"
    /\ requests' = 0
    /\ stubCalls' = 0
    /\ pc' = "done"

\* call_llm up to the entry of "async with httpx.AsyncClient": llm.py
\* 228-252.  The conversation is read once, into the payload (llm.py 238);
\* the model keeps it no longer.
RemoteCallOpens(msgs) ==
    /\ Request
    /\ ~stub_mode(env)
    /\ ~config_missing(env)
    /\ timeout_ok(env)
    /\ messages' = <<>>
    /\ resp' = NoResp
    /\ result' = "none"
    /\ errKind' = ""
    /\ requests' = 0
    /\ stubCalls' = 0
    /\ pc' = "opening"

\* the client is open and the request goes out: "await client.post",
\* llm.py 253
RemoteCallPosts ==
    /\ pc = "opening"
    /\ requests' = requests + 1
    /\ pc' = "awaiting"
    /\ UNCHANGED <<env, callerPrd, turn, messages, prior, reply, result, errKind, resp,
                   stubCalls>>

\* the exception a reply raises inside the "async with" block, "" for none:
\* client.post and raise_for_status (transport), resp.json() (format)
failure_in_block(r) ==
    CASE r.kind \in {"connect", "status"} -> "transport"
      [] r.kind = "body"                  -> "format"
      [] OTHER                            -> ""

\* the POST returns or raises, and the block is left: llm.py 253-255, up to
\* the await of the client's exit
RemoteCallReceives(r) ==
    /\ pc = "awaiting"
    /\ reply' = r
    /\ errKind' = failure_in_block(r)
    /\ pc' = "closing"
    /\ UNCHANGED <<env, callerPrd, turn, messages, prior, result, resp, requests,
                   stubCalls>>

\* the exception the code after the block raises for a reply, "" for none:
\* the envelope lookup (llm.py 257-264), then _extract_json_object
failure_after_block(r) ==
    CASE r.kind = "envelope" -> "format"
      [] r.kind = "nonstr"   -> "parse"
      [] r.kind = "content" /\ ~_extract_json_object(r.content, r.obj).ok -> "parse"
      [] OTHER -> ""

\* the client has closed: the pending exception propagates, or call_llm
\* runs from the envelope lookup to its end, llm.py 257-314
RemoteCallFinishes ==
    /\ pc = "closing"
    /\ errKind' = IF errKind /= "" THEN errKind ELSE failure_after_block(reply)
    /\ result' = IF errKind' = "" THEN "response" ELSE "error"
    /\ resp' = IF errKind' = ""
               THEN merge_response(_extract_json_object(reply.content, reply.obj).obj, prior)
               ELSE NoResp
    /\ pc' = "done"
    /\ UNCHANGED <<env, callerPrd, turn, messages, prior, reply, requests, stubCalls>>

\* the caller keeps the returned PRD for its next request; after a failed
\* call it keeps the PRD it had
CallerContinues ==
    /\ pc = "done"
    /\ callerPrd' = IF result = "response" THEN resp.prd ELSE callerPrd
    /\ pc' = "idle"
    /\ messages' = <<>>
    /\ prior' = JNull
    /\ reply' = NoReply
    /\ result' = "none"
    /\ errKind' = ""
    /\ resp' = NoResp
    /\ requests' = 0
    /\ stubCalls' = 0
    /\ UNCHANGED <<env, turn>>

Next ==
    \/ \E msgs \in Conversations : StubCall(msgs)
    \/ \E msgs \in Conversations : RemoteCallRaises(msgs)
    \/ \E msgs \in Conversations : RemoteCallOpens(msgs)
    \/ RemoteCallPosts
    \/ \E r \in Replies : RemoteCallReceives(r)
    \/ RemoteCallFinishes
    \/ CallerContinues

Spec == Init /\ [][Next]_vars

(***************************************************************************)
(* Vocabulary of the properties                                            *)
(***************************************************************************)
Returned == pc = "done" /\ result = "response"
Remote == ~stub_mode(env)

PrdKeySet == {PrdKeys[i] : i \in DOMAIN PrdKeys}
MergedKeys == PrdKeySet \ {KOpenQuestions}

\* the list holds at least one string that is non-empty after trimming
HasNonEmptyString(v) ==
    v.t = "list" /\ \E i \in DOMAIN v.l : v.l[i].t = "str" /\ strip(v.l[i].s) /= <<>>

\* goals, metrics and requirements each hold a non-empty string
Complete(d) ==
    \A key \in {KGoals, KMetrics, KRequirements} :
        has(d, key) /\ HasNonEmptyString(at(d, key))

\* a PRD value as a dict: {} for None and for a non-object
AsDict(v) == IF v.t = "obj" THEN v ELSE EmptyDict

\* the object the service's content text parses to
ReplyObject == _extract_json_object(reply.content, reply.obj).obj

PriorPrd == AsDict(prior)
CandidatePrd == AsDict(get(ReplyObject, KPrd, JNull))

PriorValue(key) == get(PriorPrd, key, IF key = KProblem THEN JStr(<<>>) ELSE JList(<<>>))

\* a non-empty string or a non-empty list
NonEmptyValue(v) == (v.t = "str" /\ v.s /= <<>>) \/ (v.t = "list" /\ v.l /= <<>>)

\* the candidate's value for key is a blank string, an empty list, or missing
CandidateEmpty(key) ==
    \/ ~has(CandidatePrd, key)
    \/ at(CandidatePrd, key).t = "str" /\ strip(at(CandidatePrd, key).s) = <<>>
    \/ at(CandidatePrd, key).t = "list" /\ at(CandidatePrd, key).l = <<>>

\* the candidate has a value for key that the field merge rule takes
CandidateWins(key) ==
    /\ has(CandidatePrd, key)
    /\ IF key = KProblem
       THEN at(CandidatePrd, key).t = "str" /\ strip(at(CandidatePrd, key).s) /= <<>>
       ELSE at(CandidatePrd, key).t = "list" /\ at(CandidatePrd, key).l /= <<>>

\* the last user message holds none of the recognised labels
LastUserText == last_user_of(messages)
NoLabel(text) == \A i \in DOMAIN StopLabels : find(lower(text), StopLabels[i], 0) = -1

Quiet ==
    /\ resp.assistant_text = <<>>
    /\ resp.questions = <<>>
    /\ at(resp.prd, KOpenQuestions) = JList(<<>>)

\* 'save time'
SaveTime ==
    <<"s","a","v","e"," ","t","i","m","e">>

\* 'hours saved'
HoursSaved ==
    <<"h","o","u","r","s"," ","s","a","v","e","d">>

\* 'retention'
Retention ==
    <<"r","e","t","e","n","t","i","o","n">>

(***************************************************************************)
(* C1  Idempotent completeness                                             *)
(***************************************************************************)
\* C1: in remote mode, when the prior PRD's goals, metrics and requirements
\* each hold a non-empty string, the response has assistant_text = "",
\* questions = [] and prd.open_questions = [], whatever the candidate is.
C1_IdempotentCompleteness ==
    (Returned /\ Remote /\ Complete(PriorPrd)) => Quiet

(***************************************************************************)
(* C2  No silent deletion                                                  *)
(***************************************************************************)
\* C2 as stated: for each of the six fields, a non-empty prior value
\* survives a candidate whose value for that field is empty.
C2_NoSilentDeletion_SixFields ==
    (Returned /\ Remote) =>
        \A key \in PrdKeySet :
            (has(PriorPrd, key) /\ NonEmptyValue(at(PriorPrd, key)) /\ CandidateEmpty(key))
                => at(resp.prd, key) = at(PriorPrd, key)

\* C2 amended: the same for problem, users, goals, metrics and requirements;
\* open_questions is rewritten on every turn and is not covered.
C2_NoSilentDeletion ==
    (Returned /\ Remote) =>
        \A key \in MergedKeys :
            (has(PriorPrd, key) /\ NonEmptyValue(at(PriorPrd, key)) /\ CandidateEmpty(key))
                => at(resp.prd, key) = at(PriorPrd, key)

\* C2 witness: a candidate that names a field with an empty list, against a
\* non-empty prior value, and the prior value came back
C2_Witness ==
    /\ Returned /\ Remote
    /\ \E key \in ListKeys \ {KOpenQuestions} :
          /\ has(PriorPrd, key) /\ NonEmptyValue(at(PriorPrd, key))
          /\ has(CandidatePrd, key) /\ at(CandidatePrd, key) = JList(<<>>)
          /\ at(resp.prd, key) = at(PriorPrd, key)

(***************************************************************************)
(* C3  open_questions mirrors the pending question                         *)
(***************************************************************************)
\* C3: in every response, rule-based or remote, whose PRD is incomplete,
\* prd.open_questions equals the questions list, item for item.
C3_OpenQuestionsMirror ==
    (Returned /\ ~Complete(resp.prd)) =>
        at(resp.prd, KOpenQuestions) = StrList(resp.questions)

(***************************************************************************)
(* C4  Scenario B in every mode                                            *)
(***************************************************************************)
\* C4: in rule-based mode, with a complete prior PRD and a last user message
\* without a label, the response is quiet (assistant_text = "", no question,
\* open_questions = []) and problem, users, goals, metrics and requirements
\* keep their prior values.
C4_ScenarioB_RuleBased ==
    (Returned /\ ~Remote /\ Complete(PriorPrd) /\ NoLabel(LastUserText)) =>
        /\ Quiet
        /\ \A key \in MergedKeys : at(resp.prd, key) = PriorValue(key)

(***************************************************************************)
(* C5  Shape totality                                                      *)
(***************************************************************************)
\* C5: the PRD call_llm returns in remote mode has all six keys, problem a
\* string and the five others lists, for any prior PRD and any candidate.
C5_ShapeTotality ==
    (Returned /\ Remote) =>
        /\ \A key \in PrdKeySet : has(resp.prd, key)
        /\ at(resp.prd, KProblem).t = "str"
        /\ \A key \in ListKeys : at(resp.prd, key).t = "list"

(***************************************************************************)
(* C6  Question cap                                                        *)
(***************************************************************************)
\* C6 as stated: at most 3 questions in every response, and at most 1 on
\* the remote path.
C6_QuestionCap_RemoteOne ==
    Returned => /\ Len(resp.questions) <= 3
                /\ Remote => Len(resp.questions) <= 1

\* C6 amended: at most 3 questions in every response, on the remote path as
\* on the rule-based one.
C6_QuestionCap ==
    Returned => Len(resp.questions) <= 3

\* the entries of the service's questions list that are non-blank once
\* rendered and trimmed
NonBlankEntries ==
    LET qs == get(ReplyObject, KQuestions, JNull)
    IN  IF qs.t = "list"
        THEN Cardinality({i \in DOMAIN qs.l : strip(py_str(qs.l[i])) /= <<>>})
        ELSE 0

\* C6 witness: the service sent more than 3 non-blank questions and 3 came back
C6_Witness ==
    Returned /\ Remote /\ NonBlankEntries > 3 /\ Len(resp.questions) = 3

(***************************************************************************)
(* C7  Rule-based question generation                                      *)
(***************************************************************************)
\* the prior PRD's field is empty (falsy) before this turn's extraction
PriorEmpty(key) == ~truthy(PriorValue(key))

IsScenarioA ==
    /\ messages = <<User(TextScenarioA)>>
    /\ PriorEmpty(KUsers) /\ PriorEmpty(KGoals) /\ PriorEmpty(KMetrics)

ScenarioAPrd ==
    /\ at(resp.prd, KGoals) = StrList(<<SaveTime>>)
    /\ at(resp.prd, KMetrics) = StrList(<<HoursSaved, Retention>>)
    /\ ~truthy(at(resp.prd, KUsers))

\* C7 as stated: the rule-based extractor asks only about the first of users,
\* goals, metrics that is empty in the prior PRD; Scenario A returns exactly
\* one question, with goals and metrics filled and users empty.
C7_FirstEmptyOnly ==
    (Returned /\ ~Remote) =>
        /\ resp.questions =
              IF PriorEmpty(KUsers) THEN <<QuestionUsers>>
              ELSE IF PriorEmpty(KGoals) THEN <<QuestionGoals>>
              ELSE IF PriorEmpty(KMetrics) THEN <<QuestionMetrics>>
              ELSE <<>>
        /\ IsScenarioA => Len(resp.questions) = 1 /\ ScenarioAPrd

\* C7 amended: the rule-based extractor asks about every one of users, goals,
\* metrics that is empty in the prior PRD, in that order, judged before this
\* turn's extraction; Scenario A returns exactly three questions, with goals
\* and metrics filled and users empty.
C7_EveryEmptyField ==
    (Returned /\ ~Remote) =>
        /\ resp.questions =
              (IF PriorEmpty(KUsers) THEN <<QuestionUsers>> ELSE <<>>)
              \o (IF PriorEmpty(KGoals) THEN <<QuestionGoals>> ELSE <<>>)
              \o (IF PriorEmpty(KMetrics) THEN <<QuestionMetrics>> ELSE <<>>)
        /\ IsScenarioA => Len(resp.questions) = 3 /\ ScenarioAPrd

\* C7 witness: Scenario A has been answered from an empty prior PRD
C7_Witness ==
    /\ Returned /\ ~Remote /\ IsScenarioA /\ ~truthy(prior)
    /\ Len(resp.questions) = 3 /\ ScenarioAPrd

(***************************************************************************)
(* C8  Failure propagation in remote mode                                  *)
(***************************************************************************)
SettingAbsent ==
    \E name \in {"LLM_API_KEY", "LLM_BASE_URL", "LLM_MODEL"} :
        ~env[name].set \/ env[name].v = <<>>

\* C8: in remote mode a call with a setting absent issues no request; a call
\* that fails returns no response; a call issues at most one request; the
\* rule-based extractor is never run; and each failure of the service
\* (transport, format, parse) ends the call in an error.
C8_FailurePropagation ==
    /\ (Remote /\ SettingAbsent) => requests = 0
    /\ (Remote /\ SettingAbsent /\ pc = "done") => result = "error"
    /\ result = "error" => resp = NoResp /\ pc = "done"
    /\ requests <= 1
    /\ Remote => stubCalls = 0
    /\ (pc = "done" /\ reply.kind \in {"connect", "status", "body", "envelope", "nonstr"})
          => result = "error"
    /\ (pc = "done" /\ reply.kind = "content" /\ reply.content \in BadContents)
          => result = "error"

\* C8 witness: a call that failed on the content after its one request
C8_Witness ==
    pc = "done" /\ result = "error" /\ errKind = "parse" /\ requests = 1

(***************************************************************************)
(* C9  Field merge rule                                                    *)
(***************************************************************************)
\* C9: in remote mode the returned problem is the candidate's when that is a
\* string non-empty after trimming, else the prior's; the returned users,
\* goals, metrics and requirements are the candidate's list when it is
\* non-empty, else the prior's.
C9_FieldMergeRule ==
    (Returned /\ Remote) =>
        \A key \in MergedKeys :
            at(resp.prd, key) = IF CandidateWins(key) THEN at(CandidatePrd, key)
                                ELSE PriorValue(key)

\* C9 witness (Scenario C): a candidate problem of "" against a prior problem
C9_Witness ==
    /\ Returned /\ Remote
    /\ has(CandidatePrd, KProblem) /\ at(CandidatePrd, KProblem) = JStr(<<>>)
    /\ PriorValue(KProblem) = JStr(<<"p">>)
    /\ at(resp.prd, KProblem) = JStr(<<"p">>)

(***************************************************************************)
(* C10  The rule-based mode never completes a PRD                          *)
(***************************************************************************)
CallerRequirements == get(AsDict(callerPrd), KRequirements, JList(<<>>))

\* C10: in rule-based mode the returned requirements equal the prior ones and
\* every question is one of the three about users, goals and metrics; and
\* from a caller PRD without a requirement, the next returned PRD is not
\* complete and the PRD the caller then holds is again without a requirement.
C10_RuleBasedNeverCompletes ==
    /\ []((Returned /\ ~Remote) =>
            /\ at(resp.prd, KRequirements) = PriorValue(KRequirements)
            /\ \A i \in DOMAIN resp.questions :
                  resp.questions[i] \in {QuestionUsers, QuestionGoals, QuestionMetrics})
    /\ [][(~Remote /\ ~HasNonEmptyString(CallerRequirements)) =>
            /\ ~HasNonEmptyString(CallerRequirements')
            /\ result' = "response" => ~Complete(resp'.prd)]_vars

\* C10 witness: a second rule-based turn whose PRD has goals and metrics
\* filled and still no requirement
C10_Witness ==
    /\ Returned /\ ~Remote /\ turn = 2
    /\ HasNonEmptyString(at(resp.prd, KGoals))
    /\ HasNonEmptyString(at(resp.prd, KMetrics))
    /\ at(resp.prd, KRequirements) = JList(<<>>)

====
